---- MODULE Spec2Model ----
(***************************************************************************)
(* A model of mkchal (src/mkchal/mkchal.py): the command line entry point  *)
(* main, the repository lookup get_repo and the scaffolder                 *)
(* create_challenge, run by two invocations over one shared filesystem.    *)
(*                                                                         *)
(* A string is a sequence of atoms.  An atom is a TLA+ string standing for *)
(* one character ("a", the quote, the backslash, the newline, a digit) or  *)
(* for a run of ordinary characters ("chal.json").  A path is a sequence   *)
(* of strings, one per component.                                          *)
(***************************************************************************)
EXTENDS Integers, Sequences, FiniteSets, TLC

VARIABLES
    fs,          \* the filesystem: path -> entry
    templates,   \* the deploy template directory shipped with the tool
    argv,        \* per invocation: the command line
    chal,        \* per invocation: the Challenge built by main
    pc,          \* per invocation: position in main / create_challenge
    err,         \* per invocation: the exception that ended it, or NoErr
    cld,         \* per invocation: local variable cld of create_challenge
    todo,        \* per invocation: templates_to_write not yet written
    printed,     \* per invocation: the confirmation message was printed
    touched,     \* history: paths the invocation created or wrote
    ensured,     \* history: directories the invocation created or found
    failedAt,    \* history: the step at which the invocation failed
    atEntry,     \* history: what create_challenge met when it began
    fs0,         \* history: the filesystem before any invocation
    jsChal,      \* round trip: the Challenge under test
    jsText,      \* round trip: the text written to chal.json
    jsParsed,    \* round trip: the value parsed back from that text
    jsPc         \* round trip: position

vars == <<fs, templates, argv, chal, pc, err, cld, todo, printed, touched,
          ensured, failedAt, atEntry, fs0, jsChal, jsText, jsParsed, jsPc>>

mainVars == <<fs, templates, argv, chal, pc, err, cld, todo, printed, touched,
              ensured, failedAt, atEntry, fs0>>

jsVars == <<jsChal, jsText, jsParsed, jsPc>>

(***************************************************************************)
(* Bounds.                                                                 *)
(***************************************************************************)
MaxStrLen == 2
MaxPort == 11

\* Optional[X]: None is the empty sequence, a present x is <<x>>.
None == <<>>
Some(x) == <<x>>

(***************************************************************************)
(* Strings.                                                                *)
(***************************************************************************)
QUOTE == "\""
BACKSLASH == "\\"
NEWLINE == "\n"
SPACE == " "

Digits == <<"0", "1", "2", "3", "4", "5", "6", "7", "8", "9">>

RECURSIVE Concat(_)
Concat(ss) == IF ss = <<>> THEN <<>> ELSE Head(ss) \o Concat(Tail(ss))

\* sep.join(parts)
RECURSIVE Join(_, _)
Join(sep, parts) ==
    IF parts = <<>> THEN <<>>
    ELSE IF Len(parts) = 1 THEN parts[1]
    ELSE parts[1] \o sep \o Join(sep, Tail(parts))

RECURSIVE Repeat(_, _)
Repeat(a, n) == IF n = 0 THEN <<>> ELSE <<a>> \o Repeat(a, n - 1)

\* str(n) for an int n
RECURSIVE NatToDec(_)
NatToDec(n) ==
    IF n < 10 THEN <<Digits[n + 1]>>
    ELSE NatToDec(n \div 10) \o <<Digits[(n % 10) + 1]>>

IntToDec(n) == IF n < 0 THEN <<"-">> \o NatToDec(0 - n) ELSE NatToDec(n)

IsDigit(a) == \E i \in 1..10 : Digits[i] = a

DigitVal(a) == (CHOOSE i \in 1..10 : Digits[i] = a) - 1

RECURSIVE DecToNat(_, _)
DecToNat(s, acc) ==
    IF s = <<>> THEN acc ELSE DecToNat(Tail(s), acc * 10 + DigitVal(Head(s)))

\* int(token) of argparse's type=int: the value, or None when it raises
ParseIntToken(s) ==
    LET signed == s # <<>> /\ Head(s) \in {"-", "+"}
        body == IF signed THEN Tail(s) ELSE s
    IN  IF body = <<>> \/ \E i \in 1..Len(body) : ~IsDigit(body[i]) THEN None
        ELSE IF s[1] = "-" THEN Some(0 - DecToNat(body, 0))
        ELSE Some(DecToNat(body, 0))

(***************************************************************************)
(* The Challenge record and its enum.                                      *)
(***************************************************************************)
Type == {"REV", "PWN", "CRYPTO", "WEB", "MISC"}

\* Type.<member>.value
TypeValue(m) ==
    CASE m = "REV" -> <<"rev">>
      [] m = "PWN" -> <<"pwn">>
      [] m = "CRYPTO" -> <<"crypto">>
      [] m = "WEB" -> <<"web">>
      [] m = "MISC" -> <<"misc">>

Challenge(type, name, author, description, difficulty, flag, provides, ports, remote, target) ==
    [type |-> type, name |-> name, author |-> author,
     description |-> description, difficulty |-> difficulty, flag |-> flag,
     provides |-> provides, ports |-> ports, remote |-> remote,
     target |-> target]

(***************************************************************************)
(* json.dumps(challenge.__dict__, indent=4, sort_keys=True) and the parse  *)
(* of its output.  A JSON value is a tagged record.                        *)
(***************************************************************************)
JStr(s) == [t |-> "str", v |-> s]
JInt(n) == [t |-> "int", v |-> n]
JNull == [t |-> "null"]
JList(xs) == [t |-> "list", v |-> xs]
JDict(ks, vs) == [t |-> "dict", keys |-> ks, vals |-> vs]
JError == [t |-> "error"]

\* the keys of Challenge.__dict__ in sort_keys order
SortedKeys ==
    << <<"author">>, <<"description">>, <<"difficulty">>, <<"flag">>,
       <<"name">>, <<"ports">>, <<"provides">>, <<"remote">>, <<"target">>,
       <<"type">> >>

\* the value json.dumps sees under each key of challenge.__dict__
DictValue(ch, key) ==
    CASE key = <<"author">> -> JStr(ch.author)
      [] key = <<"description">> -> JStr(ch.description)
      [] key = <<"difficulty">> -> JStr(ch.difficulty)
      [] key = <<"flag">> -> JStr(ch.flag)
      [] key = <<"name">> -> JStr(ch.name)
      [] key = <<"ports">> ->
            JList([i \in 1..Len(ch.ports) |-> JInt(ch.ports[i])])
      [] key = <<"provides">> ->
            JList([i \in 1..Len(ch.provides) |-> JStr(ch.provides[i])])
      [] key = <<"remote">> ->
            IF ch.remote = None THEN JNull
            ELSE JList([i \in 1..Len(ch.remote[1]) |-> JStr(ch.remote[1][i])])
      [] key = <<"target">> ->
            IF ch.target = None THEN JNull ELSE JStr(ch.target[1])
      [] key = <<"type">> -> JStr(TypeValue(ch.type))

ToDict(ch) ==
    JDict(SortedKeys, [i \in 1..Len(SortedKeys) |-> DictValue(ch, SortedKeys[i])])

\* EscapeAtom without the escape of the backslash
EscapeAtom_NoBackslash(a) ==
    CASE a = QUOTE -> <<BACKSLASH, QUOTE>>
      [] a = NEWLINE -> <<BACKSLASH, "n">>
      [] OTHER -> <<a>>

\* the escape of one character inside a JSON string
EscapeAtom(a) ==
    CASE a = QUOTE -> <<BACKSLASH, QUOTE>>
      [] a = BACKSLASH -> <<BACKSLASH, BACKSLASH>>
      [] a = NEWLINE -> <<BACKSLASH, "n">>
      [] OTHER -> <<a>>

EncodeString(s) ==
    <<QUOTE>> \o Concat([i \in 1..Len(s) |-> EscapeAtom(s[i])]) \o <<QUOTE>>

NewlineIndent(level) == <<NEWLINE>> \o Repeat(SPACE, 4 * level)

RECURSIVE Encode(_, _)
RECURSIVE EncodeItems(_, _)
RECURSIVE EncodeMembers(_, _, _)

EncodeItems(xs, level) ==
    IF xs = <<>> THEN <<>>
    ELSE Encode(Head(xs), level)
         \o (IF Len(xs) = 1 THEN <<>>
             ELSE <<",">> \o NewlineIndent(level) \o EncodeItems(Tail(xs), level))

EncodeMembers(ks, vs, level) ==
    IF ks = <<>> THEN <<>>
    ELSE EncodeString(Head(ks)) \o <<":", SPACE>> \o Encode(Head(vs), level)
         \o (IF Len(ks) = 1 THEN <<>>
             ELSE <<",">> \o NewlineIndent(level)
                  \o EncodeMembers(Tail(ks), Tail(vs), level))

\* level is the nesting depth of the value
Encode(j, level) ==
    CASE j.t = "str" -> EncodeString(j.v)
      [] j.t = "int" -> IntToDec(j.v)
      [] j.t = "null" -> <<"null">>
      [] j.t = "list" ->
            IF j.v = <<>> THEN <<"[", "]">>
            ELSE <<"[">> \o NewlineIndent(level + 1)
                 \o EncodeItems(j.v, level + 1)
                 \o NewlineIndent(level) \o <<"]">>
      [] j.t = "dict" ->
            IF j.keys = <<>> THEN <<"{", "}">>
            ELSE <<"{">> \o NewlineIndent(level + 1)
                 \o EncodeMembers(j.keys, j.vals, level + 1)
                 \o NewlineIndent(level) \o <<"}">>

Dumps(ch) == Encode(ToDict(ch), 0)

\* the text read back: a JSON parser
At(t, i) == IF i \in 1..Len(t) THEN t[i] ELSE "<eof>"

Parsed(v, i) == [ok |-> TRUE, v |-> v, i |-> i]
Failed == [ok |-> FALSE, v |-> JError, i |-> 0]

RECURSIVE SkipWs(_, _)
SkipWs(t, i) == IF At(t, i) \in {SPACE, NEWLINE} THEN SkipWs(t, i + 1) ELSE i

RECURSIVE ScanString(_, _, _)
ScanString(t, i, acc) ==
    LET a == At(t, i) IN
    CASE a = "<eof>" -> Failed
      [] a = NEWLINE -> Failed
      [] a = QUOTE -> Parsed(acc, i + 1)
      [] a = BACKSLASH ->
            LET b == At(t, i + 1) IN
            CASE b = QUOTE -> ScanString(t, i + 2, Append(acc, QUOTE))
              [] b = BACKSLASH -> ScanString(t, i + 2, Append(acc, BACKSLASH))
              [] b = "n" -> ScanString(t, i + 2, Append(acc, NEWLINE))
              [] OTHER -> Failed
      [] OTHER -> ScanString(t, i + 1, Append(acc, a))

RECURSIVE ScanDigits(_, _, _)
ScanDigits(t, i, acc) ==
    IF IsDigit(At(t, i)) THEN ScanDigits(t, i + 1, acc * 10 + DigitVal(t[i]))
    ELSE Parsed(acc, i)

ScanNumber(t, i) ==
    LET neg == At(t, i) = "-"
        j == IF neg THEN i + 1 ELSE i
        r == ScanDigits(t, j, 0)
    IN  IF ~IsDigit(At(t, j)) THEN Failed
        ELSE IF At(t, j) = "0" /\ r.i > j + 1 THEN Failed
        ELSE Parsed(JInt(IF neg THEN 0 - r.v ELSE r.v), r.i)

RECURSIVE ParseValue(_, _)
RECURSIVE ParseItems(_, _, _)
RECURSIVE ParseMembers(_, _, _, _)

ParseItems(t, i, acc) ==
    LET r == ParseValue(t, i) IN
    IF ~r.ok THEN Failed
    ELSE LET j == SkipWs(t, r.i) IN
         CASE At(t, j) = "," -> ParseItems(t, SkipWs(t, j + 1), Append(acc, r.v))
           [] At(t, j) = "]" -> Parsed(JList(Append(acc, r.v)), j + 1)
           [] OTHER -> Failed

ParseMembers(t, i, ks, vs) ==
    IF At(t, i) # QUOTE THEN Failed
    ELSE LET k == ScanString(t, i + 1, <<>>) IN
         IF ~k.ok THEN Failed
         ELSE LET c == SkipWs(t, k.i) IN
              IF At(t, c) # ":" THEN Failed
              ELSE LET r == ParseValue(t, SkipWs(t, c + 1)) IN
                   IF ~r.ok THEN Failed
                   ELSE LET j == SkipWs(t, r.i) IN
                        CASE At(t, j) = "," ->
                                ParseMembers(t, SkipWs(t, j + 1),
                                             Append(ks, k.v), Append(vs, r.v))
                          [] At(t, j) = "}" ->
                                Parsed(JDict(Append(ks, k.v), Append(vs, r.v)),
                                       j + 1)
                          [] OTHER -> Failed

ParseValue(t, i) ==
    LET a == At(t, i) IN
    CASE a = QUOTE ->
            LET r == ScanString(t, i + 1, <<>>) IN
            IF r.ok THEN Parsed(JStr(r.v), r.i) ELSE Failed
      [] a = "null" -> Parsed(JNull, i + 1)
      [] a = "[" ->
            LET j == SkipWs(t, i + 1) IN
            IF At(t, j) = "]" THEN Parsed(JList(<<>>), j + 1)
            ELSE ParseItems(t, j, <<>>)
      [] a = "{" ->
            LET j == SkipWs(t, i + 1) IN
            IF At(t, j) = "}" THEN Parsed(JDict(<<>>, <<>>), j + 1)
            ELSE ParseMembers(t, j, <<>>, <<>>)
      [] a = "-" \/ IsDigit(a) -> ScanNumber(t, i)
      [] OTHER -> Failed

Loads(t) ==
    LET r == ParseValue(t, SkipWs(t, 1)) IN
    IF r.ok /\ SkipWs(t, r.i) = Len(t) + 1 THEN r.v ELSE JError

RECURSIVE JsonEq(_, _)
JsonEq(a, b) ==
    /\ a.t = b.t
    /\ CASE a.t = "str" -> a.v = b.v
         [] a.t = "int" -> a.v = b.v
         [] a.t = "null" -> TRUE
         [] a.t = "list" ->
               /\ Len(a.v) = Len(b.v)
               /\ \A i \in 1..Len(a.v) : JsonEq(a.v[i], b.v[i])
         [] a.t = "dict" ->
               /\ a.keys = b.keys
               /\ \A i \in 1..Len(a.vals) : JsonEq(a.vals[i], b.vals[i])
         [] OTHER -> FALSE

\* parsed[key] of a parsed object, JError when there is none
Field(j, key) ==
    IF j.t = "dict" /\ \E i \in 1..Len(j.keys) : j.keys[i] = key
    THEN j.vals[CHOOSE i \in 1..Len(j.keys) : j.keys[i] = key]
    ELSE JError

(***************************************************************************)
(* Paths and the filesystem.  fs maps every existing path to its entry; a  *)
(* path outside DOMAIN fs does not exist.                                  *)
(***************************************************************************)
Dir == [kind |-> "dir", data |-> <<>>]
File(data) == [kind |-> "file", data |-> data]

Parent(path) == SubSeq(path, 1, Len(path) - 1)

Exists(f, path) == path \in DOMAIN f
IsDir(f, path) == Exists(f, path) /\ f[path].kind = "dir"
IsFile(f, path) == Exists(f, path) /\ f[path].kind = "file"

\* path strictly below dir
Under(path, dir) ==
    Len(path) > Len(dir) /\ SubSeq(path, 1, Len(dir)) = dir

Cwd == << <<"repo">>, <<"work">> >>
GitMarker == <<".git">>

\* the components of a path string, as pathlib.Path(s) splits it
RECURSIVE SplitPath(_, _, _)
SplitPath(s, cur, acc) ==
    IF s = <<>> THEN (IF cur = <<>> THEN acc ELSE Append(acc, cur))
    ELSE IF Head(s) = "/"
         THEN SplitPath(Tail(s), <<>>, IF cur = <<>> THEN acc ELSE Append(acc, cur))
         ELSE SplitPath(Tail(s), Append(cur, Head(s)), acc)

\* Path(s), resolved: a relative one is taken from the working directory
PathOf(s) ==
    IF s # <<>> /\ Head(s) = "/" THEN SplitPath(s, <<>>, <<>>)
    ELSE Cwd \o SplitPath(s, <<>>, <<>>)

\* str(path)
PathStr(path) ==
    IF path = <<>> THEN <<"/">>
    ELSE Concat([i \in 1..Len(path) |-> <<"/">> \o path[i]])

\* str(Path(s)) of a path string: separators collapsed, relative kept relative
StrOfPath(s) ==
    LET parts == SplitPath(s, <<>>, <<>>) IN
    IF s # <<>> /\ Head(s) = "/" THEN PathStr(parts)
    ELSE IF parts = <<>> THEN <<".">>
    ELSE Join(<<"/">>, parts)

RECURSIVE Mkdir(_, _, _)
\* Mkdir that accepts a directory already there (exist_ok=True)
MkdirExistOk(f, path, parents) ==
    IF IsDir(f, path) THEN [err |-> "NoErr", fs |-> f, made |-> {}]
    ELSE IF Exists(f, path) THEN [err |-> "FileExistsError", fs |-> f, made |-> {}]
    ELSE IF IsFile(f, Parent(path))
    THEN [err |-> "NotADirectoryError", fs |-> f, made |-> {}]
    ELSE IF ~Exists(f, Parent(path))
    THEN IF ~parents THEN [err |-> "FileNotFoundError", fs |-> f, made |-> {}]
         ELSE LET up == Mkdir(f, Parent(path), TRUE) IN
              IF up.err # "NoErr" THEN up
              ELSE [err |-> "NoErr", fs |-> up.fs @@ (path :> Dir),
                    made |-> up.made \cup {path}]
    ELSE [err |-> "NoErr", fs |-> f @@ (path :> Dir), made |-> {path}]

\* Path.mkdir(parents=parents), exist_ok left False
Mkdir(f, path, parents) ==
    IF Exists(f, path) THEN [err |-> "FileExistsError", fs |-> f, made |-> {}]
    ELSE IF IsFile(f, Parent(path))
    THEN [err |-> "NotADirectoryError", fs |-> f, made |-> {}]
    ELSE IF ~Exists(f, Parent(path))
    THEN IF ~parents THEN [err |-> "FileNotFoundError", fs |-> f, made |-> {}]
         ELSE LET up == Mkdir(f, Parent(path), TRUE) IN
              IF up.err # "NoErr" THEN up
              ELSE [err |-> "NoErr", fs |-> up.fs @@ (path :> Dir),
                    made |-> up.made \cup {path}]
    ELSE [err |-> "NoErr", fs |-> f @@ (path :> Dir), made |-> {path}]

\* path.open("w"): the error it raises, or NoErr when the file is opened
OpenW(f, path) ==
    IF IsDir(f, path) THEN "IsADirectoryError"
    ELSE IF IsFile(f, Parent(path)) THEN "NotADirectoryError"
    ELSE IF ~Exists(f, Parent(path)) THEN "FileNotFoundError"
    ELSE "NoErr"

\* the file at path holds exactly data
WriteFile(f, path, data) ==
    IF Exists(f, path) THEN [f EXCEPT ![path] = File(data)]
    ELSE f @@ (path :> File(data))

\* git.Repo(path, search_parent_directories=True).working_dir, or None
RECURSIVE FindRepo(_, _)
FindRepo(f, path) ==
    IF IsDir(f, Append(path, GitMarker)) THEN Some(path)
    ELSE IF path = <<>> THEN None
    ELSE FindRepo(f, Parent(path))

\* get_repo that falls back on the working directory
get_repo_OrCwd(f) ==
    IF FindRepo(f, Cwd) = None THEN Some(Cwd) ELSE FindRepo(f, Cwd)

get_repo(f) == FindRepo(f, Cwd)

(***************************************************************************)
(* The deploy templates.  A template's content is the sequence of          *)
(* (literal text, field name) pairs string.Formatter().parse yields; the   *)
(* field name is None after the last literal.                              *)
(***************************************************************************)
FormatterKeys == {"name", "dist_path", "port"}

ComposeTemplate ==
    [name |-> <<"docker-compose.yml">>,
     content |-> << << <<"services: ">>, Some("name") >>,
                    << <<" ports: ">>, Some("port") >>,
                    << <<NEWLINE>>, None >> >>]

DockerfileTemplate ==
    [name |-> <<"Dockerfile">>,
     content |-> << << <<"COPY ">>, Some("dist_path") >>,
                    << <<" /srv">>, None >> >>]

BadTemplate ==
    [name |-> <<"Dockerfile">>,
     content |-> << << <<"FROM ">>, Some("image") >>,
                    << <<NEWLINE, "COPY ">>, Some("dist_path") >> >>]

\* the listings of templates/deploy the model runs with, in iterdir order
TemplateDirs ==
    { <<>>,
      <<ComposeTemplate, DockerfileTemplate>>,
      <<ComposeTemplate, BadTemplate>> }

\* the field names of a template, in order
FieldsOf(content) ==
    SelectSeq([i \in 1..Len(content) |-> content[i][2]], LAMBDA o : o # None)

\* all_formatters[key]
all_formatters(ch, chal_dir, key) ==
    CASE key = "name" -> ch.name
      [] key = "dist_path" -> PathStr(Append(chal_dir, <<"dist">>))
      [] key = "port" -> IntToDec(ch.ports[1])

\* template_content.format(**formatters)
Render(content, ch, chal_dir) ==
    Concat([i \in 1..Len(content) |->
               content[i][1]
               \o (IF content[i][2] = None THEN <<>>
                   ELSE all_formatters(ch, chal_dir, content[i][2][1]))])

\* the text written to src/Makefile
Makefile(name) ==
    <<"CC=", NEWLINE, "CXX=", NEWLINE, "CFLAGS=", NEWLINE, "CXXFLAGS=", NEWLINE,
      "LDFLAGS=", NEWLINE, NEWLINE, "all: ">> \o name \o <<NEWLINE, NEWLINE>>
    \o name \o <<": ">> \o name \o <<".c", NEWLINE,
      "\t$(CC) $(CFLAGS) $(LDFLAGS) -o $@ $^", NEWLINE>>

\* the text written to deploy.sh
DeploySh(remote) == <<"#!/bin/bash", NEWLINE>> \o Join(<<SPACE>>, remote)

(***************************************************************************)
(* The command line.  Each option holds None or its tokens.                *)
(***************************************************************************)
TypeChoices == {TypeValue(m) : m \in Type}
DifficultyChoices == {<<"Easy">>, <<"Medium">>, <<"Hard">>}

\* Type(token)
TypeOf(token) == CHOOSE m \in Type : TypeValue(m) = token

Required == {"type", "name", "author", "description", "difficulty", "flag",
             "provides", "ports"}

\* parser.parse_args() accepts the command line
ArgsOk(a) ==
    /\ \A k \in Required : a[k] # None
    /\ a.type[1] \in TypeChoices
    /\ a.difficulty[1] \in DifficultyChoices
    /\ a.description[1] # <<>> /\ a.provides[1] # <<>> /\ a.ports[1] # <<>>
    /\ \A i \in 1..Len(a.ports[1]) : ParseIntToken(a.ports[1][i]) # None
    /\ a.remote # None => a.remote[1] # <<>>

\* the Challenge main builds from the parsed arguments
ChallengeOf(a) ==
    Challenge(TypeOf(a.type[1]), a.name[1], a.author[1],
              Join(<<SPACE>>, a.description[1]), a.difficulty[1], a.flag[1],
              [i \in 1..Len(a.provides[1]) |-> StrOfPath(a.provides[1][i])],
              [i \in 1..Len(a.ports[1]) |-> ParseIntToken(a.ports[1][i])[1]],
              a.remote, a.target)

(***************************************************************************)
(* The invocations.                                                        *)
(***************************************************************************)
Procs == {"p1", "p2"}

NAME == <<"stack1">>
TargetStr == <<"/", "out", "/", "ctf">>

BaseArgv ==
    [type |-> Some(<<"pwn">>), name |-> Some(NAME), author |-> Some(<<"alice">>),
     description |-> Some(<< <<"simple">>, <<"overflow">> >>),
     difficulty |-> Some(<<"Easy">>), flag |-> Some(<<"flag{A}">>),
     provides |-> Some(<< <<"dist", "/", "/", "stack1">> >>),
     ports |-> Some(<< <<"8", "0">> >>), remote |-> None, target |-> None]

ValidArgvs ==
    { [BaseArgv EXCEPT !.flag = Some(fl), !.remote = re, !.target = ta] :
        fl \in {<<"flag{A}">>, <<"flag{B}">>},
        re \in {None, Some(<< <<"docker-compose">>, <<"up">> >>)},
        ta \in {None, Some(TargetStr)} }

InvalidArgvs ==
    { [BaseArgv EXCEPT !.type = Some(<<"kernel">>)],
      [BaseArgv EXCEPT !.difficulty = Some(<<"Extreme">>)],
      [BaseArgv EXCEPT !.flag = None],
      [BaseArgv EXCEPT !.ports = Some(<< <<"8", "0">>, <<"h", "t", "t", "p">> >>)] }

Argvs == ValidArgvs \cup InvalidArgvs

\* the filesystems an invocation may start from
BaseTree ==
    (<<>> :> Dir) @@ (<< <<"repo">> >> :> Dir) @@ (Cwd :> Dir)

WithRepo(f) == f @@ (<< <<"repo">>, GitMarker >> :> Dir)

OutCtf == << <<"out">>, <<"ctf">> >>

InitialTrees ==
    LET bases == {BaseTree, WithRepo(BaseTree)} IN
    bases
    \cup {b @@ (<< <<"out">> >> :> Dir) @@ (OutCtf :> Dir)
            @@ (Append(OutCtf, NAME) :> Dir) : b \in bases}
    \cup {b @@ (<< <<"out">> >> :> Dir) @@ (OutCtf :> Dir)
            @@ (Append(OutCtf, NAME) :> File(<<>>)) : b \in bases}

\* chal_dir of create_challenge
ChalDir(p) == Append(cld[p][1], chal[p][1].name)

\* an invocation ends with exception e at the step it is at
Raise(p, e) ==
    /\ pc' = [pc EXCEPT ![p] = "failed"]
    /\ err' = [err EXCEPT ![p] = e]
    /\ failedAt' = [failedAt EXCEPT ![p] = pc[p]]

Goto(p, next) ==
    /\ pc' = [pc EXCEPT ![p] = next]
    /\ UNCHANGED <<err, failedAt>>

\* path.mkdir(parents=parents) as a step of invocation p
MkdirStep(p, path, parents, next) ==
    LET r == Mkdir(fs, path, parents) IN
    /\ fs' = r.fs
    /\ touched' = [touched EXCEPT ![p] = @ \cup r.made]
    /\ ensured' = [ensured EXCEPT ![p] = @ \cup r.made]
    /\ IF r.err = "NoErr" THEN Goto(p, next) ELSE Raise(p, r.err)

\* with path.open("w") as f: f.write(data), as a step of invocation p
WriteStep(p, path, data, next) ==
    LET e == OpenW(fs, path) IN
    /\ UNCHANGED ensured
    /\ IF e = "NoErr"
       THEN /\ fs' = WriteFile(fs, path, data)
            /\ touched' = [touched EXCEPT ![p] = @ \cup {path}]
            /\ Goto(p, next)
       ELSE /\ UNCHANGED <<fs, touched>>
            /\ Raise(p, e)

(***************************************************************************)
(* main and create_challenge, one action per step.                         *)
(***************************************************************************)
\* the process is started with command line a
Invoke(p, a) ==
    /\ pc[p] = "idle"
    /\ argv' = [argv EXCEPT ![p] = Some(a)]
    /\ Goto(p, "parse_args")
    /\ UNCHANGED <<fs, templates, chal, cld, todo, printed, touched, ensured,
                   atEntry, fs0, jsVars>>

\* main: parser.parse_args() and the construction of the Challenge
ParseArgs(p) ==
    /\ pc[p] = "parse_args"
    /\ IF ArgsOk(argv[p][1])
       THEN /\ chal' = [chal EXCEPT ![p] = Some(ChallengeOf(argv[p][1]))]
            /\ Goto(p, "get_cld")
       ELSE /\ UNCHANGED chal
            /\ Raise(p, "SystemExit")
    /\ UNCHANGED <<fs, templates, argv, cld, todo, printed, touched, ensured,
                   atEntry, fs0, jsVars>>

\* create_challenge: cld is the target, or the repository's type directory
GetCld(p) ==
    /\ pc[p] = "get_cld"
    /\ LET ch == chal[p][1]
           repo == get_repo(fs)
       IN  IF ch.target = None /\ repo = None
           THEN /\ UNCHANGED <<cld, atEntry>>
                /\ Raise(p, "InvalidGitRepositoryError")
           ELSE LET d == IF ch.target = None
                         THEN Append(repo[1], TypeValue(ch.type))
                         ELSE PathOf(ch.target[1])
                IN  /\ cld' = [cld EXCEPT ![p] = Some(d)]
                    /\ atEntry' =
                         [atEntry EXCEPT ![p] =
                            [chalDir |-> IsDir(fs, Append(d, ch.name)),
                             alone |-> \A q \in Procs \ {p} :
                                          pc[q] \in {"done", "failed"}]]
                    /\ Goto(p, "cld_exists")
    /\ UNCHANGED <<fs, templates, argv, chal, todo, printed, touched, ensured,
                   fs0, jsVars>>

\* if not cld.exists()
CldExists(p) ==
    /\ pc[p] = "cld_exists"
    /\ IF Exists(fs, cld[p][1])
       THEN /\ ensured' = [ensured EXCEPT ![p] = @ \cup {cld[p][1]}]
            /\ Goto(p, "chal_dir_exists")
       ELSE /\ UNCHANGED ensured
            /\ Goto(p, "mk_cld")
    /\ UNCHANGED <<fs, templates, argv, chal, cld, todo, printed, touched,
                   atEntry, fs0, jsVars>>

\* cld.mkdir(parents=True)
MkCld(p) ==
    /\ pc[p] = "mk_cld"
    /\ MkdirStep(p, cld[p][1], TRUE, "chal_dir_exists")
    /\ UNCHANGED <<templates, argv, chal, cld, todo, printed, atEntry, fs0,
                   jsVars>>

\* if not chal_dir.exists()
ChalDirExists(p) ==
    /\ pc[p] = "chal_dir_exists"
    /\ IF Exists(fs, ChalDir(p))
       THEN /\ ensured' = [ensured EXCEPT ![p] = @ \cup {ChalDir(p)}]
            /\ Goto(p, "wr_chal_json")
       ELSE /\ UNCHANGED ensured
            /\ Goto(p, "mk_chal_dir")
    /\ UNCHANGED <<fs, templates, argv, chal, cld, todo, printed, touched,
                   atEntry, fs0, jsVars>>

\* chal_dir.mkdir()
MkChalDir(p) ==
    /\ pc[p] = "mk_chal_dir"
    /\ MkdirStep(p, ChalDir(p), FALSE, "wr_chal_json")
    /\ UNCHANGED <<templates, argv, chal, cld, todo, printed, atEntry, fs0,
                   jsVars>>

\* chal.json is written; then the test of challenge.remote
WriteChalJson(p) ==
    /\ pc[p] = "wr_chal_json"
    /\ WriteStep(p, Append(ChalDir(p), <<"chal.json">>), Dumps(chal[p][1]),
                 IF chal[p][1].remote = None THEN "mk_solve" ELSE "mk_deploy")
    /\ UNCHANGED <<templates, argv, chal, cld, todo, printed, atEntry, fs0,
                   jsVars>>

\* (chal_dir / "deploy").mkdir()
MkDeploy(p) ==
    /\ pc[p] = "mk_deploy"
    /\ MkdirStep(p, Append(ChalDir(p), <<"deploy">>), FALSE, "wr_deploy_sh")
    /\ UNCHANGED <<templates, argv, chal, cld, todo, printed, atEntry, fs0,
                   jsVars>>

\* deploy.sh is written
WriteDeploySh(p) ==
    /\ pc[p] = "wr_deploy_sh"
    /\ WriteStep(p, Append(ChalDir(p), <<"deploy.sh">>),
                 DeploySh(chal[p][1].remote[1]), "rd_templates")
    /\ UNCHANGED <<templates, argv, chal, cld, todo, printed, atEntry, fs0,
                   jsVars>>

\* every template of the template directory is read into templates_to_write
ReadTemplates(p) ==
    /\ pc[p] = "rd_templates"
    /\ todo' = [todo EXCEPT ![p] = templates]
    /\ Goto(p, IF templates = <<>> THEN "mk_solve" ELSE "wr_template")
    /\ UNCHANGED <<fs, templates, argv, chal, cld, printed, touched, ensured,
                   atEntry, fs0, jsVars>>

\* one turn of the loop over templates_to_write: the target is opened, the
\* formatters are looked up, the rendered text is written
WriteTemplate(p) ==
    /\ pc[p] = "wr_template"
    /\ LET t == Head(todo[p])
           path == ChalDir(p) \o << <<"deploy">>, t.name >>
           e == OpenW(fs, path)
           fields == FieldsOf(t.content)
           rest == Tail(todo[p])
       IN  IF e # "NoErr"
           THEN /\ UNCHANGED <<fs, touched, todo>>
                /\ Raise(p, e)
           ELSE IF \E i \in 1..Len(fields) : fields[i][1] \notin FormatterKeys
           THEN /\ fs' = WriteFile(fs, path, <<>>)
                /\ touched' = [touched EXCEPT ![p] = @ \cup {path}]
                /\ UNCHANGED todo
                /\ Raise(p, "KeyError")
           ELSE /\ fs' = WriteFile(fs, path, Render(t.content, chal[p][1], ChalDir(p)))
                /\ touched' = [touched EXCEPT ![p] = @ \cup {path}]
                /\ todo' = [todo EXCEPT ![p] = rest]
                /\ Goto(p, IF rest = <<>> THEN "mk_solve" ELSE "wr_template")
    /\ UNCHANGED <<templates, argv, chal, cld, printed, ensured, atEntry,
                   fs0, jsVars>>

\* MkSolve that goes on to the write without creating solve/
MkSolve_Skip(p) ==
    /\ pc[p] = "mk_solve"
    /\ Goto(p, "wr_flag")
    /\ UNCHANGED <<fs, touched, ensured>>
    /\ UNCHANGED <<templates, argv, chal, cld, todo, printed, atEntry, fs0,
                   jsVars>>

\* MkSolve that removes chal.json when the creation of solve/ fails
MkSolve_Rollback(p) ==
    /\ pc[p] = "mk_solve"
    /\ LET r == Mkdir(fs, Append(ChalDir(p), <<"solve">>), FALSE)
           json == Append(ChalDir(p), <<"chal.json">>)
       IN  /\ touched' = [touched EXCEPT ![p] =
                            IF r.err = "NoErr" THEN @ \cup r.made ELSE @ \ {json}]
           /\ ensured' = [ensured EXCEPT ![p] = @ \cup r.made]
           /\ IF r.err = "NoErr"
              THEN fs' = r.fs /\ Goto(p, "wr_flag")
              ELSE /\ fs' = [x \in DOMAIN fs \ {json} |-> fs[x]]
                   /\ Raise(p, r.err)
    /\ UNCHANGED <<templates, argv, chal, cld, todo, printed, atEntry, fs0,
                   jsVars>>

\* (chal_dir / "solve").mkdir()
MkSolve(p) ==
    /\ pc[p] = "mk_solve"
    /\ MkdirStep(p, Append(ChalDir(p), <<"solve">>), FALSE, "wr_flag")
    /\ UNCHANGED <<templates, argv, chal, cld, todo, printed, atEntry, fs0,
                   jsVars>>

\* solve/flag.txt is written
WriteFlag(p) ==
    /\ pc[p] = "wr_flag"
    /\ WriteStep(p, ChalDir(p) \o << <<"solve">>, <<"flag.txt">> >>,
                 chal[p][1].flag, "mk_src")
    /\ UNCHANGED <<templates, argv, chal, cld, todo, printed, atEntry, fs0,
                   jsVars>>

\* (chal_dir / "src").mkdir()
MkSrc(p) ==
    /\ pc[p] = "mk_src"
    /\ MkdirStep(p, Append(ChalDir(p), <<"src">>), FALSE, "wr_makefile")
    /\ UNCHANGED <<templates, argv, chal, cld, todo, printed, atEntry, fs0,
                   jsVars>>

\* src/Makefile is written
WriteMakefile(p) ==
    /\ pc[p] = "wr_makefile"
    /\ WriteStep(p, ChalDir(p) \o << <<"src">>, <<"Makefile">> >>,
                 Makefile(chal[p][1].name), "mk_dist")
    /\ UNCHANGED <<templates, argv, chal, cld, todo, printed, atEntry, fs0,
                   jsVars>>

\* MkDist that returns without creating dist/
MkDist_NoDir(p) ==
    /\ pc[p] = "mk_dist"
    /\ Goto(p, "print")
    /\ UNCHANGED <<fs, touched, ensured>>
    /\ UNCHANGED <<templates, argv, chal, cld, todo, printed, atEntry, fs0,
                   jsVars>>

\* (chal_dir / "dist").mkdir(); create_challenge returns
MkDist(p) ==
    /\ pc[p] = "mk_dist"
    /\ MkdirStep(p, Append(ChalDir(p), <<"dist">>), FALSE, "print")
    /\ UNCHANGED <<templates, argv, chal, cld, todo, printed, atEntry, fs0,
                   jsVars>>

\* PrintDone that also prints after a failure
PrintDone_Always(p) ==
    /\ pc[p] \in {"print", "failed"} /\ ~printed[p]
    /\ printed' = [printed EXCEPT ![p] = TRUE]
    /\ Goto(p, IF pc[p] = "print" THEN "done" ELSE "failed")
    /\ UNCHANGED <<fs, templates, argv, chal, cld, todo, touched, ensured,
                   atEntry, fs0, jsVars>>

\* main: the confirmation message
PrintDone(p) ==
    /\ pc[p] = "print"
    /\ printed' = [printed EXCEPT ![p] = TRUE]
    /\ Goto(p, "done")
    /\ UNCHANGED <<fs, templates, argv, chal, cld, todo, touched, ensured,
                   atEntry, fs0, jsVars>>

Init ==
    /\ fs \in InitialTrees
    /\ fs0 = fs
    /\ templates \in TemplateDirs
    /\ argv = [p \in Procs |-> None]
    /\ chal = [p \in Procs |-> None]
    /\ pc = [p \in Procs |-> "idle"]
    /\ err = [p \in Procs |-> "NoErr"]
    /\ cld = [p \in Procs |-> None]
    /\ todo = [p \in Procs |-> <<>>]
    /\ printed = [p \in Procs |-> FALSE]
    /\ touched = [p \in Procs |-> {}]
    /\ ensured = [p \in Procs |-> {}]
    /\ failedAt = [p \in Procs |-> "none"]
    /\ atEntry = [p \in Procs |-> [chalDir |-> FALSE, alone |-> FALSE]]
    /\ jsChal = None
    /\ jsText = <<>>
    /\ jsParsed = JError
    /\ jsPc = "off"

Next ==
    \E p \in Procs :
        \/ \E a \in Argvs : Invoke(p, a)
        \/ ParseArgs(p)
        \/ GetCld(p)
        \/ CldExists(p)
        \/ MkCld(p)
        \/ ChalDirExists(p)
        \/ MkChalDir(p)
        \/ WriteChalJson(p)
        \/ MkDeploy(p)
        \/ WriteDeploySh(p)
        \/ ReadTemplates(p)
        \/ WriteTemplate(p)
        \/ MkSolve(p)
        \/ WriteFlag(p)
        \/ MkSrc(p)
        \/ WriteMakefile(p)
        \/ MkDist(p)
        \/ PrintDone(p)

Spec == Init /\ [][Next]_vars

(***************************************************************************)
(* The round trip of chal.json on its own: a Challenge drawn from bounded  *)
(* sets is written as create_challenge writes it and parsed back.          *)
(***************************************************************************)
JsAlphabet == {"a", "n", QUOTE, BACKSLASH, NEWLINE}

JsStrings(n) == UNION {[1..k -> JsAlphabet] : k \in 0..n}

JsPorts == { <<MaxPort>>, <<0, 0 - MaxPort>>, <<7, MaxPort * 10>> }

JsChallenges ==
    { Challenge(ty, s2, s1 \o s2, Join(<<SPACE>>, <<s1, s2>>), <<"Hard">>, s1,
                <<s2, s1>>, po,
                CASE re = "absent" -> None
                  [] re = "empty" -> Some(<<>>)
                  [] re = "tokens" -> Some(<<s1, <<"up">> >>),
                IF ta THEN Some(s2) ELSE None) :
        ty \in Type, s1 \in JsStrings(MaxStrLen), s2 \in JsStrings(1),
        po \in JsPorts, re \in {"absent", "empty", "tokens"}, ta \in BOOLEAN }

\* chal_desc.write(dumps(challenge.__dict__, indent=4, sort_keys=True))
JsWrite ==
    /\ jsPc = "new"
    /\ jsText' = Dumps(jsChal[1])
    /\ jsPc' = "written"
    /\ UNCHANGED <<jsChal, jsParsed, mainVars>>

\* the file is parsed back
JsRead ==
    /\ jsPc = "written"
    /\ jsParsed' = Loads(jsText)
    /\ jsPc' = "read"
    /\ UNCHANGED <<jsChal, jsText, mainVars>>

JsInit ==
    /\ fs = BaseTree
    /\ fs0 = fs
    /\ templates = <<>>
    /\ argv = [p \in Procs |-> None]
    /\ chal = [p \in Procs |-> None]
    /\ pc = [p \in Procs |-> "idle"]
    /\ err = [p \in Procs |-> "NoErr"]
    /\ cld = [p \in Procs |-> None]
    /\ todo = [p \in Procs |-> <<>>]
    /\ printed = [p \in Procs |-> FALSE]
    /\ touched = [p \in Procs |-> {}]
    /\ ensured = [p \in Procs |-> {}]
    /\ failedAt = [p \in Procs |-> "none"]
    /\ atEntry = [p \in Procs |-> [chalDir |-> FALSE, alone |-> FALSE]]
    /\ jsChal \in {Some(c) : c \in JsChallenges}
    /\ jsText = <<>>
    /\ jsParsed = JError
    /\ jsPc = "new"

JsNext == JsWrite \/ JsRead

SpecJson == JsInit /\ [][JsNext]_vars

(***************************************************************************)
(* C5.  The chal.json written for a Challenge, parsed back, is an object   *)
(* whose ten fields reproduce the record: the strings as they were, type   *)
(* as the literal of its enum member, provides and ports as the same       *)
(* sequences in the same order, remote and target as null when absent.     *)
(***************************************************************************)
RoundTripOf(ch, j) ==
    /\ j.t = "dict"
    /\ Len(j.keys) = 10
    /\ JsonEq(Field(j, <<"type">>), JStr(TypeValue(ch.type)))
    /\ JsonEq(Field(j, <<"name">>), JStr(ch.name))
    /\ JsonEq(Field(j, <<"author">>), JStr(ch.author))
    /\ JsonEq(Field(j, <<"description">>), JStr(ch.description))
    /\ JsonEq(Field(j, <<"difficulty">>), JStr(ch.difficulty))
    /\ JsonEq(Field(j, <<"flag">>), JStr(ch.flag))
    /\ LET pr == Field(j, <<"provides">>) IN
         /\ pr.t = "list" /\ Len(pr.v) = Len(ch.provides)
         /\ \A i \in 1..Len(pr.v) : JsonEq(pr.v[i], JStr(ch.provides[i]))
    /\ LET po == Field(j, <<"ports">>) IN
         /\ po.t = "list" /\ Len(po.v) = Len(ch.ports)
         /\ \A i \in 1..Len(po.v) : JsonEq(po.v[i], JInt(ch.ports[i]))
    /\ LET re == Field(j, <<"remote">>) IN
         IF ch.remote = None THEN re.t = "null"
         ELSE /\ re.t = "list" /\ Len(re.v) = Len(ch.remote[1])
              /\ \A i \in 1..Len(re.v) : JsonEq(re.v[i], JStr(ch.remote[1][i]))
    /\ LET ta == Field(j, <<"target">>) IN
         IF ch.target = None THEN ta.t = "null"
         ELSE JsonEq(ta, JStr(ch.target[1]))

C5_RoundTrip == jsPc = "read" => RoundTripOf(jsChal[1], jsParsed)

\* a record with escapes, a negative port, an absent remote and a target
C5_Witness ==
    /\ jsPc = "read"
    /\ jsChal[1].flag = <<BACKSLASH, "n">>
    /\ jsChal[1].name = <<QUOTE>>
    /\ jsChal[1].ports = <<0, 0 - MaxPort>>
    /\ jsChal[1].remote = None
    /\ jsChal[1].target # None
    /\ jsParsed.t = "dict"

(***************************************************************************)
(* Vocabulary of the claims about main and create_challenge.               *)
(***************************************************************************)
\* create_challenge has returned
Returned(p) == pc[p] \in {"print", "done"}

\* create_challenge has computed chal_dir
Resolved(p) == chal[p] # None /\ cld[p] # None

HasRemote(p) == chal[p][1].remote # None

LayoutDirs(p) ==
    {Append(ChalDir(p), d) : d \in {<<"solve">>, <<"src">>, <<"dist">>}}
    \cup (IF HasRemote(p) THEN {Append(ChalDir(p), <<"deploy">>)} ELSE {})

LayoutFiles(p) ==
    { Append(ChalDir(p), <<"chal.json">>),
      ChalDir(p) \o << <<"solve">>, <<"flag.txt">> >>,
      ChalDir(p) \o << <<"src">>, <<"Makefile">> >> }
    \cup (IF HasRemote(p) THEN {Append(ChalDir(p), <<"deploy.sh">>)} ELSE {})

\* one rendered file per template, when remote is set
RenderedFiles(p) ==
    IF HasRemote(p)
    THEN {ChalDir(p) \o << <<"deploy">>, templates[i].name >> :
            i \in 1..Len(templates)}
    ELSE {}

\* what the invocation created or wrote below its challenge directory
TouchedUnder(p) == {x \in touched[p] : Under(x, ChalDir(p))}

\* the directory each writing step writes into
WriteSteps ==
    {"wr_chal_json", "wr_deploy_sh", "wr_template", "wr_flag", "wr_makefile"}

WriteDir(p) ==
    CASE pc[p] \in {"wr_chal_json", "wr_deploy_sh"} -> ChalDir(p)
      [] pc[p] = "wr_template" -> Append(ChalDir(p), <<"deploy">>)
      [] pc[p] = "wr_flag" -> Append(ChalDir(p), <<"solve">>)
      [] pc[p] = "wr_makefile" -> Append(ChalDir(p), <<"src">>)

MkdirSteps ==
    {"mk_cld", "mk_chal_dir", "mk_deploy", "mk_solve", "mk_src", "mk_dist"}

(***************************************************************************)
(* C1 as stated.  Once create_challenge has returned, what it created or   *)
(* wrote below the challenge directory is exactly chal.json,               *)
(* solve/flag.txt, src/Makefile, dist/, and deploy/ and deploy.sh when     *)
(* remote is set: nothing else.                                            *)
(***************************************************************************)
C1_ExactLayout_AsStated ==
    \A p \in Procs :
        Returned(p) => TouchedUnder(p) = LayoutDirs(p) \cup LayoutFiles(p)

(***************************************************************************)
(* C1 amended.  Once create_challenge has returned, what it created or     *)
(* wrote below the challenge directory is exactly chal.json, solve/ with   *)
(* flag.txt, src/ with Makefile, dist/, and, if and only if remote is set, *)
(* deploy/, deploy.sh and one file deploy/<template> per template of the   *)
(* template directory; each of them is on disk as a directory or a file    *)
(* as listed.                                                              *)
(***************************************************************************)
C1_ExactLayout ==
    \A p \in Procs :
        Returned(p) =>
            /\ TouchedUnder(p) =
                 LayoutDirs(p) \cup LayoutFiles(p) \cup RenderedFiles(p)
            /\ \A d \in LayoutDirs(p) : IsDir(fs, d)
            /\ \A x \in LayoutFiles(p) \cup RenderedFiles(p) : IsFile(fs, x)

C1_Witness ==
    \E p \in Procs :
        /\ pc[p] = "done" /\ HasRemote(p) /\ templates # <<>>
        /\ \E q \in Procs : pc[q] = "done" /\ ~HasRemote(q)

(***************************************************************************)
(* C2.  An invocation that finds the challenge directory already there,    *)
(* with no other invocation running, does not fail on the filesystem: it   *)
(* ends without error (or on a template placeholder error only).           *)
(***************************************************************************)
C2_ProceedsInExistingDir ==
    \A p \in Procs :
        atEntry[p].chalDir /\ atEntry[p].alone => err[p] \in {"NoErr", "KeyError"}

(***************************************************************************)
(* C3.  When an invocation has failed on a placeholder key outside name,   *)
(* dist_path and port, there is no file in deploy/ for the template that   *)
(* holds the key.                                                          *)
(***************************************************************************)
C3_NoFileForBadTemplate ==
    \A p \in Procs :
        err[p] = "KeyError" =>
            ~Exists(fs, ChalDir(p) \o << <<"deploy">>, Head(todo[p]).name >>)

(***************************************************************************)
(* C4.  With target absent and no version-control marker from the working  *)
(* directory up to the root, an invocation that has passed the resolution  *)
(* of its target has failed there with the repository error and has        *)
(* created and written nothing; while no other invocation has changed the  *)
(* filesystem either, the filesystem is the one it started with.           *)
(***************************************************************************)
C4_NoRepoNoWrites ==
    \A p \in Procs :
        /\ chal[p] # None /\ chal[p][1].target = None
        /\ \A i \in 0..Len(Cwd) : ~IsDir(fs0, Append(SubSeq(Cwd, 1, i), GitMarker))
        /\ pc[p] # "get_cld"
        => /\ pc[p] = "failed" /\ err[p] = "InvalidGitRepositoryError"
           /\ failedAt[p] = "get_cld"
           /\ touched[p] = {} /\ ensured[p] = {} /\ cld[p] = None
           /\ (\A q \in Procs : touched[q] = {}) => fs = fs0

C4_Witness ==
    \E p \in Procs :
        /\ err[p] = "InvalidGitRepositoryError"
        /\ chal[p][1].target = None
        /\ fs = fs0

(***************************************************************************)
(* C6.  Whenever an invocation is about to write a file, an earlier step   *)
(* of the same invocation has created the directory it writes into or has  *)
(* found it to exist, and that path is on disk; no write fails for want of *)
(* its directory.                                                          *)
(***************************************************************************)
C6_DirBeforeWrite ==
    \A p \in Procs :
        /\ pc[p] \in WriteSteps =>
              WriteDir(p) \in ensured[p] /\ Exists(fs, WriteDir(p))
        /\ failedAt[p] \in WriteSteps => err[p] # "FileNotFoundError"

C6_Witness ==
    \E p \in Procs :
        /\ pc[p] = "wr_template" /\ Len(todo[p]) = 1
        /\ \E q \in Procs : pc[q] = "wr_flag" /\ ChalDir(q) = ChalDir(p)

(***************************************************************************)
(* C7.  The step on which an invocation fails leaves every path that was   *)
(* on disk as it was; a failed invocation takes no further step; and what  *)
(* a failed invocation had created or written is still on disk.            *)
(***************************************************************************)
C7_Step ==
    \A p \in Procs :
        /\ pc[p] # "failed" /\ pc'[p] = "failed" =>
              \A x \in DOMAIN fs : x \in DOMAIN fs' /\ fs'[x] = fs[x]
        /\ pc[p] = "failed" =>
              /\ pc'[p] = "failed" /\ err'[p] = err[p]
              /\ touched'[p] = touched[p] /\ printed'[p] = printed[p]
        /\ pc'[p] = "failed" => \A x \in touched'[p] : x \in DOMAIN fs'

C7_NoRollback == [][C7_Step]_vars

C7_Witness ==
    \E p \in Procs :
        /\ pc[p] = "failed" /\ err[p] = "FileExistsError"
        /\ failedAt[p] = "mk_solve"
        /\ Append(ChalDir(p), <<"chal.json">>) \in touched[p]

(***************************************************************************)
(* C8.  The confirmation message is printed exactly by the invocations     *)
(* that have finished main: those had their arguments accepted, raised     *)
(* nothing and created the whole layout.  An invocation that ended in an   *)
(* error has printed no confirmation.                                      *)
(***************************************************************************)
C8_PrintedIffCompleted ==
    \A p \in Procs :
        /\ printed[p] <=> pc[p] = "done"
        /\ printed[p] =>
              /\ ArgsOk(argv[p][1]) /\ err[p] = "NoErr"
              /\ LayoutDirs(p) \cup LayoutFiles(p) \subseteq touched[p]
        /\ err[p] # "NoErr" => pc[p] = "failed" /\ ~printed[p]

C8_Witness ==
    \E p, q \in Procs :
        /\ printed[p]
        /\ err[q] = "FileExistsError" /\ ~printed[q]

(***************************************************************************)
(* C9, for invocations run one after the other.  Once every invocation   *)
(* has ended and the later one began after the earlier had ended,          *)
(* whenever chal.json and solve/flag.txt are both in a challenge           *)
(* directory, the flag recorded in chal.json is the content of flag.txt.   *)
(***************************************************************************)
C9_FlagAgrees ==
    (/\ \A q \in Procs : pc[q] \in {"done", "failed"}
     /\ \E q \in Procs : atEntry[q].alone)
    => \A p \in Procs :
          Resolved(p) =>
             LET json == Append(ChalDir(p), <<"chal.json">>)
                 flag == ChalDir(p) \o << <<"solve">>, <<"flag.txt">> >>
             IN  IsFile(fs, json) /\ IsFile(fs, flag) =>
                     JsonEq(Field(Loads(fs[json].data), <<"flag">>),
                            JStr(fs[flag].data))

(***************************************************************************)
(* C10 as stated.  Of two invocations against one challenge directory that *)
(* was absent at first, at most one returns from create_challenge, and     *)
(* when one has returned and the other has failed, the other failed on     *)
(* the creation of the challenge directory, deploy/, solve/, src/ or       *)
(* dist/.                                                                  *)
(***************************************************************************)
SameAbsentDir(p, q) ==
    /\ p # q /\ Resolved(p) /\ Resolved(q)
    /\ ChalDir(p) = ChalDir(q)
    /\ ~Exists(fs0, ChalDir(p))

C10_AtMostOne_AsStated ==
    \A p, q \in Procs :
        SameAbsentDir(p, q) =>
            /\ ~(Returned(p) /\ Returned(q))
            /\ Returned(p) /\ pc[q] = "failed" =>
                  /\ err[q] = "FileExistsError"
                  /\ failedAt[q] \in MkdirSteps \ {"mk_cld"}

(***************************************************************************)
(* C10 amended.  Of two invocations against one challenge directory that   *)
(* was absent at first, at most one returns from create_challenge, and     *)
(* when one has returned and the other has failed, the other failed on an  *)
(* exclusive directory creation, which may also be that of the category    *)
(* directory, or on a template placeholder error.                          *)
(***************************************************************************)
C10_AtMostOne ==
    \A p, q \in Procs :
        SameAbsentDir(p, q) =>
            /\ ~(Returned(p) /\ Returned(q))
            /\ Returned(p) /\ pc[q] = "failed" =>
                  \/ err[q] = "FileExistsError" /\ failedAt[q] \in MkdirSteps
                  \/ err[q] = "KeyError" /\ failedAt[q] = "wr_template"

C10_Witness ==
    \E p, q \in Procs :
        /\ SameAbsentDir(p, q)
        /\ pc[p] = "done"
        /\ err[q] = "FileExistsError" /\ failedAt[q] = "mk_cld"

====
